---- MODULE Spec2Model ----
(***************************************************************************)
(* Model of "Sentence classification by MorphConv.ipynb" (challenge_nsmc): *)
(* the train/validation split (cell 3), the preprocessing pipeline (cells   *)
(* 5-8: vocabulary, lookup, padding), the training loop (cell 17) and the   *)
(* evaluation pass (cells 18-21) built on one switchable iterator.          *)
(*                                                                          *)
(* Three specifications share the module:                                   *)
(*   SpecSplit  cell 3, for every row count of the training file;           *)
(*   SpecPrep   cells 5-8, for every tokenised corpus within the bounds;    *)
(*   Spec       cells 16-21, the training loop followed by the test pass.   *)
(* Sizes are scaled down (batch_size, maxlen, min_freq are the notebook's   *)
(* 100, 30 and 15 scaled to model bounds); epochs keeps the notebook value. *)
(***************************************************************************)
EXTENDS Integers, Sequences, FiniteSets, TLC

VARIABLES
    \* ---- cell 3: train/validation split
    spc, nrows, val_indices, tr_indices, ratings_tr, ratings_val,
    \* ---- cells 5-8: preprocessing
    ppc, X_tr_morphs, X_val_morphs, X_tst_morphs, counter, idx_to_token,
    X_tr, X_val, X_tst,
    \* ---- cells 16-21: training loop and test pass
    pc, size, rest, seen, params, last_run, exc,
    epoch, avg_tr_loss, avg_val_loss, tr_step, val_step,
    tr_loss_hist, val_loss_hist, ep_loss,
    y_tst, y_tst_hat, tst_ids, acc

splitVars == <<spc, nrows, val_indices, tr_indices, ratings_tr, ratings_val>>
prepVars == <<ppc, X_tr_morphs, X_val_morphs, X_tst_morphs, counter,
              idx_to_token, X_tr, X_val, X_tst>>
trainVars == <<pc, size, rest, seen, params, last_run, exc,
               epoch, avg_tr_loss, avg_val_loss, tr_step, val_step,
               tr_loss_hist, val_loss_hist, ep_loss,
               y_tst, y_tst_hat, tst_ids, acc>>
vars == <<splitVars, prepVars, trainVars>>

\* ------------------------------------------------------------------ bounds
\* Largest row count of ratings_train.txt the split is checked for.
MaxSplitRows == 10

\* ---------------------------------------------------------------- helpers
Range(s) == {s[i] : i \in DOMAIN s}

\* ====================================================================
\* Cell 3: the train/validation split
\* ====================================================================

\* range(ratings.shape[0]) as an array: 0, 1, ..., n-1.
RowRange(n) == [i \in 1..n |-> i - 1]

\* int(ratings.shape[0] * .2). The double nearest .2 is slightly above 1/5,
\* so for the row counts modelled the product truncates to n \div 5.
ValSize(n) == n \div 5

\* A plausible slip: replace = True, a sample with repetitions.
RandomChoiceWithReplacement(n, k) == [1..k -> 0..(n - 1)]

\* np.random.choice(a = range(n), size = k, replace = False): the possible
\* results, every arrangement of k distinct elements of range(n).
RandomChoice(n, k) ==
    {s \in [1..k -> 0..(n - 1)] : \A i, j \in 1..k : i # j => s[i] # s[j]}

\* np.delete(arr = range(n), obj = idx, axis = 0): the array without the
\* positions listed in idx (a position listed twice is removed once).
NpDelete(n, idx) == SelectSeq(RowRange(n), LAMBDA r : r \notin Range(idx))

\* ratings.iloc[idx, :]: one row per entry of idx, in idx's order. A row of
\* ratings is identified by its position in the file.
ILoc(idx) == idx

\* Lines 103-105: val_indices, then tr_indices.
ChooseIndices ==
    /\ spc = "loaded"
    /\ \E v \in RandomChoice(nrows, ValSize(nrows)) :
          /\ val_indices' = v
          /\ tr_indices' = NpDelete(nrows, v)
    /\ spc' = "indexed"
    /\ UNCHANGED <<nrows, ratings_tr, ratings_val>>

\* np.random.choice on an empty population: numpy releases differ, some raise
\* ValueError even for size 0. Both outcomes are kept for an empty file.
ChooseRaises ==
    /\ spc = "loaded"
    /\ nrows = 0
    /\ spc' = "aborted"
    /\ UNCHANGED <<nrows, val_indices, tr_indices, ratings_tr, ratings_val>>

\* Lines 107-108: ratings_tr, ratings_val.
SelectRows ==
    /\ spc = "indexed"
    /\ ratings_tr' = ILoc(tr_indices)
    /\ ratings_val' = ILoc(val_indices)
    /\ spc' = "done"
    /\ UNCHANGED <<nrows, val_indices, tr_indices>>

SplitNext ==
    \/ (ChooseIndices /\ UNCHANGED <<prepVars, trainVars>>)
    \/ (ChooseRaises /\ UNCHANGED <<prepVars, trainVars>>)
    \/ (SelectRows /\ UNCHANGED <<prepVars, trainVars>>)

\* ====================================================================
\* Cells 5-8: tokenised corpus -> vocabulary -> padded id sequences
\* ====================================================================

\* maxlen of pad_sequences (30 in the notebook), scaled.
maxlen == 2
\* min_freq of nlp.Vocab (15 in the notebook), scaled.
min_freq == 2
\* value of pad_sequences (1., stored as int32).
PadValue == 1
\* Index of '<unk>' in a gluonnlp Vocab: what token_to_idx gives for a token
\* it does not hold.
UnkIdx == 0

\* Morphemes mecab.morphs can return, in lexicographic order.
TokenOrder == <<"a", "b">>
Tokens == Range(TokenOrder)
Rank(t) == CHOOSE i \in DOMAIN TokenOrder : TokenOrder[i] = t

\* A tokenised review: any morpheme sequence, the empty one and one longer
\* than maxlen included.
Reviews == UNION {[1..k -> Tokens] : k \in 0..(maxlen + 1)}

\* A plausible slip: counting the tokens of every split.
AllSplitsCorpus(tr, val, tst) == tr \o val \o tst

\* Line 173: itertools.chain.from_iterable([c for c in X_tr]), the reviews
\* whose tokens are counted.
VocabCorpus(tr, val, tst) == tr

\* Occurrences of token t in the reviews r, r+1, ... of the corpus.
RECURSIVE CountFrom(_, _, _)
CountFrom(corpus, t, r) ==
    IF r > Len(corpus) THEN 0
    ELSE Cardinality({j \in DOMAIN corpus[r] : corpus[r][j] = t})
         + CountFrom(corpus, t, r + 1)

\* nlp.data.count_tokens: token -> number of occurrences in the corpus.
CountTokens(corpus) == [t \in Tokens |-> CountFrom(corpus, t, 1)]

\* nlp.Vocab(counter, bos_token=None, eos_token=None, min_freq): the reserved
\* '<unk>' and '<pad>', then the tokens with count >= min_freq by decreasing
\* count, ties in lexicographic order.
RECURSIVE ByFrequency(_, _)
ByFrequency(cnt, left) ==
    IF left = {} THEN <<>>
    ELSE LET best == CHOOSE t \in left :
                        \A u \in left :
                            \/ cnt[t] > cnt[u]
                            \/ (cnt[t] = cnt[u] /\ Rank(t) <= Rank(u))
         IN <<best>> \o ByFrequency(cnt, left \ {best})

Vocab(cnt) ==
    <<"<unk>", "<pad>">> \o ByFrequency(cnt, {t \in Tokens : cnt[t] >= min_freq})

\* vocab.token_to_idx[token]: a lookup that never inserts; a token the
\* vocabulary does not hold gives the index of '<unk>'.
TokenToIdx(i2t, token) ==
    IF \E i \in DOMAIN i2t : i2t[i] = token
    THEN (CHOOSE i \in DOMAIN i2t : i2t[i] = token) - 1
    ELSE UnkIdx

\* [vocab.token_to_idx[token] for token in sen]
LookupSentence(i2t, sen) == [j \in DOMAIN sen |-> TokenToIdx(i2t, sen[j])]

\* A plausible slip: padding without truncating.
PadOneNoTruncate(s) ==
    IF Len(s) >= maxlen THEN s
    ELSE [j \in 1..maxlen |-> IF j <= Len(s) THEN s[j] ELSE PadValue]

\* One row of pad_sequences(maxlen, padding = 'post', value = 1.) with the
\* default truncating = 'pre': the last maxlen ids are kept, the pad value
\* fills the tail.
PadOne(s) ==
    LET trunc == IF Len(s) > maxlen
                 THEN SubSeq(s, Len(s) - maxlen + 1, Len(s))
                 ELSE s
    IN [j \in 1..maxlen |-> IF j <= Len(trunc) THEN trunc[j] ELSE PadValue]

\* Lines 208-209 (and 211-212, 214-215): lookup, then pad_sequences.
Encode(i2t, X) == [r \in DOMAIN X |-> PadOne(LookupSentence(i2t, X[r]))]

\* Cell 6, lines 173-174.
BuildVocab ==
    /\ ppc = "tokenized"
    /\ LET cnt == CountTokens(VocabCorpus(X_tr_morphs, X_val_morphs, X_tst_morphs))
       IN /\ counter' = cnt
          /\ idx_to_token' = Vocab(cnt)
    /\ ppc' = "vocab"
    /\ UNCHANGED <<X_tr_morphs, X_val_morphs, X_tst_morphs, X_tr, X_val, X_tst>>

\* Cell 8, lines 208-215: the three splits encoded with the same vocabulary.
FinalPreprocessing ==
    /\ ppc = "vocab"
    /\ X_tr' = Encode(idx_to_token, X_tr_morphs)
    /\ X_val' = Encode(idx_to_token, X_val_morphs)
    /\ X_tst' = Encode(idx_to_token, X_tst_morphs)
    /\ ppc' = "done"
    /\ UNCHANGED <<X_tr_morphs, X_val_morphs, X_tst_morphs, counter, idx_to_token>>

PrepNext ==
    \/ (BuildVocab /\ UNCHANGED <<splitVars, trainVars>>)
    \/ (FinalPreprocessing /\ UNCHANGED <<splitVars, trainVars>>)

\* ====================================================================
\* Cells 10-21: datasets, the switchable iterator, training, evaluation
\* ====================================================================

\* epochs (line 320).
epochs == 5
\* batch_size (line 321; 100 in the notebook), scaled.
batch_size == 2
\* Largest row count of ratings_train.txt the training loop is run for.
MaxRows == 5
\* Largest row count of ratings_test.txt.
MaxTst == 3

\* Values of total_loss a step can return (a float in the code).
Losses == {1, 2}
\* Class labels (n_of_classes = 2).
Labels == {0, 1}

Splits == {"tr", "val", "tst"}
\* tr_handle, val_handle, tst_handle (lines 402, 564): each names its iterator.
tr_handle == "tr"
val_handle == "val"
tst_handle == "tst"

Min(a, b) == IF a <= b THEN a ELSE b
CeilDiv(a, b) == (a + b - 1) \div b

\* A set of example positions as the ascending sequence of its elements.
RECURSIVE Ascending(_)
Ascending(S) ==
    IF S = {} THEN <<>>
    ELSE LET m == CHOOSE x \in S : \A y \in S : x <= y
         IN <<m>> \o Ascending(S \ {m})

\* A plausible slip: every dataset shuffled.
ShuffledAll(s) == TRUE

\* tr_dataset.shuffle(buffer_size = 1000000) (line 334); val_dataset and
\* tst_dataset are batched without shuffle (lines 346-347, 553-554).
Shuffled(s) == s = "tr"

\* dataset.batch(batch_size) on what an iterator has not yet produced: the
\* batches get_next can return. A shuffled dataset gives any batch_size of
\* the remaining examples (all of them when fewer remain), an unshuffled one
\* the next ones in file order.
NextBatches(s, left) ==
    LET k == Min(batch_size, Cardinality(left))
    IN IF Shuffled(s)
       THEN {Ascending(b) : b \in {c \in SUBSET left : Cardinality(c) = k}}
       ELSE {SubSeq(Ascending(left), 1, k)}

\* A plausible slip: one implicit iterator, whatever handle is fed.
SelectedGlobal(h) == "tr"

\* tf.data.Iterator.from_string_handle (lines 358-362): a step reads the
\* iterator whose handle is fed.
Selected(h) == h

\* A plausible slip: dropout left off in the training feed.
TrFeedNoDropout == [handle |-> tr_handle, is_training |-> FALSE]

\* feed_dict of the three loops (lines 513, 525, 580-581).
TrFeed == [handle |-> tr_handle, is_training |-> TRUE]
ValFeed == [handle |-> val_handle, is_training |-> FALSE]
TstFeed == [handle |-> tst_handle, is_training |-> FALSE]

\* Variables of the graph: the two embedding tables, the three convolutions,
\* the dense layer (lines 240-279).
ModelVars == {"static", "non_static", "tri_gram", "tetra_gram", "penta_gram", "dense"}

\* A plausible slip: static created trainable.
TrainableAll == ModelVars

\* static_embed is created with trainable = False (lines 240-241); every
\* other variable is trainable, so opt.minimize (line 383) updates it.
Trainable == ModelVars \ {"static"}

\* One run of training_op: every trainable variable moves to a new value
\* (values are counted, 0 being the initial one: the pretrained matrix for
\* the two embedding tables).
ApplyTrainingOp(p) == [v \in ModelVars |-> IF v \in Trainable THEN p[v] + 1 ELSE p[v]]

\* A plausible slip: a bare except.
CaughtAny(e) == TRUE

\* except tf.errors.OutOfRangeError (lines 517, 529, 584).
Caught(e) == e = "OutOfRangeError"

\* Rationals as <<numerator, denominator>>: avg += loss and avg /= step.
RatAdd(r, x) == <<r[1] + x * r[2], r[2]>>
RatDiv(r, k) == <<r[1], r[2] * k>>

\* np.mean(y_tst_hat == np.array(y_tst)) (line 602) as <<matches, count>>;
\* arrays of different lengths compare as one False.
Accuracy(hat, y) ==
    IF Len(hat) # Len(y) THEN <<0, 1>>
    ELSE <<Cardinality({i \in 1..Len(y) : hat[i] = y[i]}), Len(y)>>

NoRun == [handle |-> "none", src |-> "none", is_training |-> FALSE,
          training_op |-> FALSE, batch |-> <<>>]

Unseen(n) == [i \in 1..n |-> 0]
See(sn, b) == [i \in DOMAIN sn |-> IF i \in Range(b) THEN sn[i] + 1 ELSE sn[i]]

frameLoop == <<epoch, tr_loss_hist, val_loss_hist>>
frameTst == <<y_tst, y_tst_hat, tst_ids, acc>>

\* Lines 500-508: the next epoch starts; accumulators reset, the training
\* iterator initialised.
EpochBegin ==
    /\ pc = "for"
    /\ epoch < epochs
    /\ avg_tr_loss' = <<0, 1>>
    /\ avg_val_loss' = <<0, 1>>
    /\ tr_step' = 0
    /\ val_step' = 0
    /\ ep_loss' = [s \in {"tr", "val"} |-> <<0, 0>>]
    /\ rest' = [rest EXCEPT !["tr"] = 1..size["tr"]]
    /\ seen' = [seen EXCEPT !["tr"] = Unseen(size["tr"])]
    /\ pc' = "train"
    /\ UNCHANGED <<size, params, last_run, exc, frameLoop, frameTst>>

\* Lines 512-515, a batch is there: gradient update, loss accumulated.
TrainBatch ==
    /\ pc = "train"
    /\ LET src == Selected(TrFeed.handle)
       IN /\ rest[src] # {}
          /\ \E b \in NextBatches(src, rest[src]), loss \in Losses :
                /\ rest' = [rest EXCEPT ![src] = @ \ Range(b)]
                /\ seen' = [seen EXCEPT ![src] = See(@, b)]
                /\ last_run' = [handle |-> TrFeed.handle, src |-> src,
                                is_training |-> TrFeed.is_training,
                                training_op |-> TRUE, batch |-> b]
                /\ avg_tr_loss' = RatAdd(avg_tr_loss, loss)
                /\ ep_loss' = [ep_loss EXCEPT !["tr"] = <<@[1] + loss, @[2] + 1>>]
    /\ params' = ApplyTrainingOp(params)
    /\ tr_step' = tr_step + 1
    /\ exc' = "none"
    /\ UNCHANGED <<pc, size, avg_val_loss, val_step, frameLoop, frameTst>>

\* Lines 512-518, a step raises: the end of the data (or an error the except
\* clause catches) ends the loop, anything else ends the run.
TrainRaise ==
    /\ pc = "train"
    /\ LET src == Selected(TrFeed.handle)
       IN \E e \in {"OutOfRangeError", "OtherError"} :
             /\ e = "OutOfRangeError" => rest[src] = {}
             /\ exc' = e
             /\ pc' = IF Caught(e) THEN "val_init" ELSE "aborted"
             /\ last_run' = [handle |-> TrFeed.handle, src |-> src,
                             is_training |-> TrFeed.is_training,
                             training_op |-> TRUE, batch |-> <<>>]
    /\ UNCHANGED <<size, rest, seen, params, avg_tr_loss, avg_val_loss, tr_step,
                   val_step, ep_loss, frameLoop, frameTst>>

\* Line 521: the validation iterator initialised.
ValInit ==
    /\ pc = "val_init"
    /\ rest' = [rest EXCEPT !["val"] = 1..size["val"]]
    /\ seen' = [seen EXCEPT !["val"] = Unseen(size["val"])]
    /\ pc' = "val"
    /\ UNCHANGED <<size, params, last_run, exc, avg_tr_loss, avg_val_loss,
                   tr_step, val_step, ep_loss, frameLoop, frameTst>>

\* Lines 524-527, a batch is there: the loss is fetched, nothing else.
ValBatch ==
    /\ pc = "val"
    /\ LET src == Selected(ValFeed.handle)
       IN /\ rest[src] # {}
          /\ \E b \in NextBatches(src, rest[src]), loss \in Losses :
                /\ rest' = [rest EXCEPT ![src] = @ \ Range(b)]
                /\ seen' = [seen EXCEPT ![src] = See(@, b)]
                /\ last_run' = [handle |-> ValFeed.handle, src |-> src,
                                is_training |-> ValFeed.is_training,
                                training_op |-> FALSE, batch |-> b]
                /\ avg_val_loss' = RatAdd(avg_val_loss, loss)
                /\ ep_loss' = [ep_loss EXCEPT !["val"] = <<@[1] + loss, @[2] + 1>>]
    /\ val_step' = val_step + 1
    /\ exc' = "none"
    /\ UNCHANGED <<pc, size, params, avg_tr_loss, tr_step, frameLoop, frameTst>>

\* Lines 524-530, a step raises.
ValRaise ==
    /\ pc = "val"
    /\ LET src == Selected(ValFeed.handle)
       IN \E e \in {"OutOfRangeError", "OtherError"} :
             /\ e = "OutOfRangeError" => rest[src] = {}
             /\ exc' = e
             /\ pc' = IF Caught(e) THEN "epoch_end" ELSE "aborted"
             /\ last_run' = [handle |-> ValFeed.handle, src |-> src,
                             is_training |-> ValFeed.is_training,
                             training_op |-> FALSE, batch |-> <<>>]
    /\ UNCHANGED <<size, rest, seen, params, avg_tr_loss, avg_val_loss, tr_step,
                   val_step, ep_loss, frameLoop, frameTst>>

\* Lines 532-537: the two means, appended to the histories. A division by a
\* step count of 0 raises ZeroDivisionError (both operands are still Python
\* ints then), which nothing catches; line 532 has run when line 533 raises.
EpochEnd ==
    /\ pc = "epoch_end"
    /\ IF tr_step = 0
       THEN /\ exc' = "ZeroDivisionError"
            /\ pc' = "aborted"
            /\ UNCHANGED <<avg_tr_loss, avg_val_loss, frameLoop>>
       ELSE IF val_step = 0
       THEN /\ avg_tr_loss' = RatDiv(avg_tr_loss, tr_step)
            /\ exc' = "ZeroDivisionError"
            /\ pc' = "aborted"
            /\ UNCHANGED <<avg_val_loss, frameLoop>>
       ELSE /\ avg_tr_loss' = RatDiv(avg_tr_loss, tr_step)
            /\ avg_val_loss' = RatDiv(avg_val_loss, val_step)
            /\ tr_loss_hist' = Append(tr_loss_hist, RatDiv(avg_tr_loss, tr_step))
            /\ val_loss_hist' = Append(val_loss_hist, RatDiv(avg_val_loss, val_step))
            /\ epoch' = epoch + 1
            /\ pc' = "for"
            /\ UNCHANGED exc
    /\ UNCHANGED <<size, rest, seen, params, last_run, tr_step, val_step,
                   ep_loss, frameTst>>

\* The for loop is over; cells 18-19 and lines 573-575: the test dataset (any
\* row count of ratings_test.txt), its iterator initialised, y_tst_hat empty.
TestBegin ==
    /\ pc = "for"
    /\ epoch = epochs
    /\ \E n \in 0..MaxTst :
          /\ size' = [size EXCEPT !["tst"] = n]
          /\ rest' = [rest EXCEPT !["tst"] = 1..n]
          /\ seen' = [seen EXCEPT !["tst"] = Unseen(n)]
    /\ y_tst_hat' = <<>>
    /\ tst_ids' = <<>>
    /\ pc' = "test"
    /\ UNCHANGED <<params, last_run, exc, avg_tr_loss, avg_val_loss, tr_step,
                   val_step, ep_loss, frameLoop, y_tst, acc>>

\* Lines 579-582, a batch is there: its predictions appended to y_tst_hat.
TestBatch ==
    /\ pc = "test"
    /\ LET src == Selected(TstFeed.handle)
       IN /\ rest[src] # {}
          /\ \E b \in NextBatches(src, rest[src]) :
                /\ rest' = [rest EXCEPT ![src] = @ \ Range(b)]
                /\ seen' = [seen EXCEPT ![src] = See(@, b)]
                /\ last_run' = [handle |-> TstFeed.handle, src |-> src,
                                is_training |-> TstFeed.is_training,
                                training_op |-> FALSE, batch |-> b]
                /\ \E y_tst_tmp \in [1..Len(b) -> Labels] :
                      y_tst_hat' = y_tst_hat \o y_tst_tmp
                /\ tst_ids' = tst_ids \o b
    /\ exc' = "none"
    /\ UNCHANGED <<pc, size, params, avg_tr_loss, avg_val_loss, tr_step, val_step,
                   ep_loss, frameLoop, y_tst, acc>>

\* Lines 579-585, a step raises.
TestRaise ==
    /\ pc = "test"
    /\ LET src == Selected(TstFeed.handle)
       IN \E e \in {"OutOfRangeError", "OtherError"} :
             /\ e = "OutOfRangeError" => rest[src] = {}
             /\ exc' = e
             /\ pc' = IF Caught(e) THEN "report" ELSE "aborted"
             /\ last_run' = [handle |-> TstFeed.handle, src |-> src,
                             is_training |-> TstFeed.is_training,
                             training_op |-> FALSE, batch |-> <<>>]
    /\ UNCHANGED <<size, rest, seen, params, avg_tr_loss, avg_val_loss, tr_step,
                   val_step, ep_loss, frameLoop, frameTst>>

\* Line 602: the accuracy printed. The labels y_tst of the test file (any
\* labels; the test pass fetches prediction only, so this is where they are
\* first read) are compared with y_tst_hat.
Report ==
    /\ pc = "report"
    /\ \E y \in [1..size["tst"] -> Labels] :
          /\ y_tst' = y
          /\ acc' = Accuracy(y_tst_hat, y)
    /\ pc' = "done"
    /\ UNCHANGED <<size, rest, seen, params, last_run, exc, avg_tr_loss,
                   avg_val_loss, tr_step, val_step, ep_loss, frameLoop,
                   y_tst_hat, tst_ids>>

Next ==
    \/ (EpochBegin /\ UNCHANGED <<splitVars, prepVars>>)
    \/ (TrainBatch /\ UNCHANGED <<splitVars, prepVars>>)
    \/ (TrainRaise /\ UNCHANGED <<splitVars, prepVars>>)
    \/ (ValInit /\ UNCHANGED <<splitVars, prepVars>>)
    \/ (ValBatch /\ UNCHANGED <<splitVars, prepVars>>)
    \/ (ValRaise /\ UNCHANGED <<splitVars, prepVars>>)
    \/ (EpochEnd /\ UNCHANGED <<splitVars, prepVars>>)
    \/ (TestBegin /\ UNCHANGED <<splitVars, prepVars>>)
    \/ (TestBatch /\ UNCHANGED <<splitVars, prepVars>>)
    \/ (TestRaise /\ UNCHANGED <<splitVars, prepVars>>)
    \/ (Report /\ UNCHANGED <<splitVars, prepVars>>)

\* ====================================================================
\* Initial states and specifications
\* ====================================================================

\* After cell 2: ratings_train.txt loaded, any row count.
SplitInit ==
    /\ spc = "loaded"
    /\ nrows \in 0..MaxSplitRows
    /\ val_indices = <<>> /\ tr_indices = <<>>
    /\ ratings_tr = <<>> /\ ratings_val = <<>>
    /\ ppc = "idle" /\ X_tr_morphs = <<>> /\ X_val_morphs = <<>>
    /\ X_tst_morphs = <<>> /\ counter = <<>> /\ idx_to_token = <<>>
    /\ X_tr = <<>> /\ X_val = <<>> /\ X_tst = <<>>
    /\ pc = "idle" /\ size = <<>> /\ rest = <<>> /\ seen = <<>>
    /\ params = <<>> /\ last_run = NoRun /\ exc = "none" /\ epoch = 0
    /\ avg_tr_loss = <<0, 1>> /\ avg_val_loss = <<0, 1>>
    /\ tr_step = 0 /\ val_step = 0
    /\ tr_loss_hist = <<>> /\ val_loss_hist = <<>> /\ ep_loss = <<>>
    /\ y_tst = <<>> /\ y_tst_hat = <<>> /\ tst_ids = <<>> /\ acc = <<0, 1>>

\* After cell 5: the three tokenised splits (two training reviews, one
\* validation review, one test review).
PrepInit ==
    /\ ppc = "tokenized"
    /\ X_tr_morphs \in [1..2 -> Reviews]
    /\ X_val_morphs \in [1..1 -> Reviews]
    /\ X_tst_morphs \in [1..1 -> Reviews]
    /\ counter = [t \in Tokens |-> 0]
    /\ idx_to_token = <<>>
    /\ X_tr = <<>> /\ X_val = <<>> /\ X_tst = <<>>
    /\ spc = "idle" /\ nrows = 0 /\ val_indices = <<>> /\ tr_indices = <<>>
    /\ ratings_tr = <<>> /\ ratings_val = <<>>
    /\ pc = "idle" /\ size = <<>> /\ rest = <<>> /\ seen = <<>>
    /\ params = <<>> /\ last_run = NoRun /\ exc = "none" /\ epoch = 0
    /\ avg_tr_loss = <<0, 1>> /\ avg_val_loss = <<0, 1>>
    /\ tr_step = 0 /\ val_step = 0
    /\ tr_loss_hist = <<>> /\ val_loss_hist = <<>> /\ ep_loss = <<>>
    /\ y_tst = <<>> /\ y_tst_hat = <<>> /\ tst_ids = <<>> /\ acc = <<0, 1>>

\* After cell 16: the split of a training file of nrows >= 1 rows has given
\* the two datasets, the variables hold their initial values, no iterator is
\* initialised.
Init ==
    /\ pc = "for"
    /\ nrows \in 1..MaxRows
    /\ size = [s \in Splits |->
                 IF s = "tr" THEN nrows - ValSize(nrows)
                 ELSE IF s = "val" THEN ValSize(nrows) ELSE 0]
    /\ rest = [s \in Splits |-> {}]
    /\ seen = [s \in Splits |-> <<>>]
    /\ params = [v \in ModelVars |-> 0]
    /\ last_run = NoRun
    /\ exc = "none"
    /\ epoch = 0
    /\ avg_tr_loss = <<0, 1>> /\ avg_val_loss = <<0, 1>>
    /\ tr_step = 0 /\ val_step = 0
    /\ tr_loss_hist = <<>> /\ val_loss_hist = <<>>
    /\ ep_loss = [s \in {"tr", "val"} |-> <<0, 0>>]
    /\ y_tst = <<>> /\ y_tst_hat = <<>> /\ tst_ids = <<>> /\ acc = <<0, 1>>
    /\ spc = "done" /\ val_indices = <<>> /\ tr_indices = <<>>
    /\ ratings_tr = <<>> /\ ratings_val = <<>>
    /\ ppc = "done" /\ X_tr_morphs = <<>> /\ X_val_morphs = <<>>
    /\ X_tst_morphs = <<>> /\ counter = <<>> /\ idx_to_token = <<>>
    /\ X_tr = <<>> /\ X_val = <<>> /\ X_tst = <<>>

SpecSplit == SplitInit /\ [][SplitNext]_vars

SpecPrep == PrepInit /\ [][PrepNext]_vars

Spec == Init /\ [][Next]_vars

\* ====================================================================
\* Properties
\* ====================================================================

\* Number of positions of the tokenised reviews M that hold token t.
Occurrences(M, t) ==
    Cardinality({p \in (DOMAIN M) \X (1..(maxlen + 1)) :
                    p[2] <= Len(M[p[1]]) /\ M[p[1]][p[2]] = t})

\* Row r of X is a padded row of maxlen ids of the vocabulary or pad values.
FixedLengthRow(row) ==
    /\ DOMAIN row = 1..maxlen
    /\ \A j \in 1..maxlen :
          \/ row[j] \in 0..(Len(idx_to_token) - 1)
          \/ row[j] = PadValue

FixedLength(X, M) ==
    /\ DOMAIN X = DOMAIN M
    /\ \A r \in DOMAIN X : FixedLengthRow(X[r])

\* C1: every review of the three splits (the empty one and those longer than
\* maxlen included) is encoded as exactly maxlen integers, each a valid
\* vocabulary id or the pad value.
C1_FixedLengthEncoding ==
    ppc = "done" =>
        /\ FixedLength(X_tr, X_tr_morphs)
        /\ FixedLength(X_val, X_val_morphs)
        /\ FixedLength(X_tst, X_tst_morphs)

\* C1 witness: all three splits encoded, among them an empty review, a review
\* longer than maxlen and a shorter one that starts with a vocabulary token.
C1_Witness ==
    /\ ppc = "done"
    /\ X_val_morphs[1] = <<>>
    /\ Len(X_tst_morphs[1]) > maxlen
    /\ Len(X_tr_morphs[1]) = 1
    /\ X_tr[1][1] >= 2
    /\ X_tr[1][maxlen] = PadValue

\* Tokens the training split holds at least min_freq times.
FrequentInTrain == {t \in Tokens : Occurrences(X_tr_morphs, t) >= min_freq}

\* The ids of X are those of the kept tokens of M (the last maxlen of a
\* review): the token's own id when it is in the set F, the unknown id
\* otherwise.
UnknownToUnk(X, M, F) ==
    \A r \in DOMAIN M :
        LET n == Len(M[r])
            off == IF n > maxlen THEN n - maxlen ELSE 0
        IN \A j \in 1..Min(n, maxlen) :
              LET tok == M[r][off + j]
              IN IF tok \in F
                 THEN /\ X[r][j] >= 2
                      /\ idx_to_token[X[r][j] + 1] = tok
                 ELSE X[r][j] = UnkIdx

\* C2: once built, the vocabulary holds the two reserved tokens and exactly
\* the tokens frequent in the training split, at every later stage (encoding
\* validation and test adds nothing), and a token that is not frequent in the
\* training split is encoded as the unknown id in every split.
C2_VocabFromTrainOnly ==
    ppc \in {"vocab", "done"} =>
        LET F == FrequentInTrain
        IN /\ Range(idx_to_token) = {"<unk>", "<pad>"} \cup F
           /\ Len(idx_to_token) = 2 + Cardinality(F)
           /\ ppc = "done" =>
                 /\ UnknownToUnk(X_tr, X_tr_morphs, F)
                 /\ UnknownToUnk(X_val, X_val_morphs, F)
                 /\ UnknownToUnk(X_tst, X_tst_morphs, F)

\* C2 witness: the validation review starts with a token the training split
\* never holds, although it is frequent in validation and test together; the
\* test review starts with a token the training split holds fewer than
\* min_freq times; both are encoded as the unknown id, and the vocabulary
\* holds no token but the reserved ones.
C2_Witness ==
    /\ ppc = "done"
    /\ Len(X_val_morphs[1]) \in 1..maxlen
    /\ Occurrences(X_tr_morphs, X_val_morphs[1][1]) = 0
    /\ Occurrences(X_val_morphs \o X_tst_morphs, X_val_morphs[1][1]) >= min_freq
    /\ X_val[1][1] = UnkIdx
    /\ Len(X_tst_morphs[1]) \in 1..maxlen
    /\ Occurrences(X_tr_morphs, X_tst_morphs[1][1]) \in 1..(min_freq - 1)
    /\ X_tst[1][1] = UnkIdx
    /\ Len(idx_to_token) = 2

\* C3: the split is a partition of the rows: no index is in both index sets,
\* and the sizes of ratings_tr and ratings_val sum to the row count.
C3_SplitIsPartition ==
    /\ spc \in {"indexed", "done"} =>
          /\ Range(tr_indices) \cap Range(val_indices) = {}
          /\ Range(tr_indices) \cup Range(val_indices) = 0..(nrows - 1)
    /\ spc = "done" =>
          /\ Len(ratings_val) = ValSize(nrows)
          /\ Len(ratings_tr) + Len(ratings_val) = nrows

\* C3 witness: a split with at least two validation rows.
C3_Witness ==
    /\ spc = "done"
    /\ Len(ratings_val) >= 2
    /\ Len(ratings_tr) >= 2
    /\ val_indices[1] > val_indices[2]

StepPcs == {"train", "val", "test"}
AllSeenOnce(s) == \A i \in 1..size[s] : seen[s][i] = 1

\* C4: a step of the training loop feeds the training handle with dropout on
\* and runs training_op, which changes the parameters when a batch is there;
\* a step of the validation loop feeds the validation handle with dropout
\* off; validation starts only when the training split is exhausted, and the
\* next epoch's training only when the validation split is exhausted.
C4_TrainThenValidate ==
    [][/\ pc = "train" =>
             /\ last_run'.src = "tr"
             /\ last_run'.is_training
             /\ last_run'.training_op
             /\ exc' = "none" => (last_run'.batch # <<>> /\ params' # params)
       /\ pc = "val" =>
             /\ last_run'.src = "val"
             /\ ~last_run'.is_training
       /\ (pc' = "val" /\ pc # "val") =>
             /\ rest["tr"] = {}
             /\ AllSeenOnce("tr")
             /\ exc = "OutOfRangeError"
             /\ last_run.src = "tr"
       /\ (pc' = "train" /\ pc # "train" /\ epoch > 0) =>
             /\ rest["val"] = {}
             /\ AllSeenOnce("val")
             /\ last_run.src = "val"
      ]_vars

\* C4 witness: inside the validation loop of the second epoch, after a
\* validation step that got a batch.
C4_Witness ==
    /\ pc = "val"
    /\ epoch = 1
    /\ val_step = 1
    /\ last_run.src = "val"
    /\ last_run.batch # <<>>
    /\ tr_step = 2

CorrectExamples ==
    {i \in 1..size["tst"] :
        \E p \in DOMAIN tst_ids : tst_ids[p] = i /\ y_tst_hat[p] = y_tst[i]}

\* C6: the test pass runs with dropout off and without training_op; when it
\* ends, y_tst_hat holds one prediction per test example, in file order, and
\* the accuracy is the number of examples predicted as labelled over the
\* number of test examples.
C6_EvaluationInOrder ==
    /\ (pc \in {"test", "report", "done"} /\ last_run.handle = tst_handle) =>
          /\ ~last_run.is_training
          /\ ~last_run.training_op
    /\ pc \in {"test", "report", "done"} =>
          /\ Len(y_tst_hat) = Len(tst_ids)
          /\ \A p \in DOMAIN tst_ids : tst_ids[p] = p
    /\ pc \in {"report", "done"} =>
          /\ Len(y_tst_hat) = size["tst"]
          /\ AllSeenOnce("tst")
    /\ pc = "done" =>
          /\ Len(y_tst) = size["tst"]
          /\ acc = <<Cardinality(CorrectExamples), size["tst"]>>

\* C6 witness: a test split of more than one batch, some predictions right
\* and some wrong.
C6_Witness ==
    /\ pc = "done"
    /\ size["tst"] > batch_size
    /\ acc[1] \in 1..(size["tst"] - 1)
    /\ y_tst_hat[1] # y_tst[1]

AfterLoop(p) ==
    IF p = "train" THEN "val_init" ELSE IF p = "val" THEN "epoch_end" ELSE "report"

\* C7: a step that raises the end of the data (only when its split is
\* exhausted) ends its loop and the run goes on with what follows the loop; a
\* step that raises anything else ends the run: nothing happens after, and
\* no history entry, prediction or accuracy is added.
C7_OnlyEndOfDataHandled ==
    [][/\ pc # "aborted"
       /\ (pc \in StepPcs /\ exc' = "OutOfRangeError" /\ pc' # pc) =>
             pc' = AfterLoop(pc)
       /\ (pc \in StepPcs /\ exc' = "OtherError") =>
             /\ pc' = "aborted"
             /\ UNCHANGED <<epoch, tr_loss_hist, val_loss_hist, y_tst_hat, acc,
                            params, rest>>
       /\ pc' = "aborted" => exc' \in {"OtherError", "ZeroDivisionError"}
      ]_vars

\* C7 witness: a validation step of the third epoch raised another error and
\* the run stopped there.
C7_Witness ==
    /\ pc = "aborted"
    /\ exc = "OtherError"
    /\ epoch = 2
    /\ last_run.handle = val_handle
    /\ Len(tr_loss_hist) = 2

\* C8: a step reads the iterator of the handle it is fed and no other: the
\* batch comes from what that iterator had left, that iterator advances by
\* the batch, the other iterators stay where they were, and the end of the
\* data is raised only when the fed split is exhausted.
C8_StepAdvancesFedSplitOnly ==
    [][(pc \in StepPcs) =>
          (LET h == last_run'.handle
           IN /\ h \in Splits
              /\ last_run'.src = h
              /\ Range(last_run'.batch) \subseteq rest[h]
              /\ rest'[h] = rest[h] \ Range(last_run'.batch)
              /\ \A s \in Splits \ {h} : rest'[s] = rest[s]
              /\ exc' = "none" => last_run'.batch # <<>>
              /\ exc' = "OutOfRangeError" => rest[h] = {})
      ]_vars

\* C8 witness: a validation step got a batch while the test iterator was
\* never initialised and the training iterator is exhausted.
C8_Witness ==
    /\ pc = "val"
    /\ last_run.handle = val_handle
    /\ last_run.batch # <<>>
    /\ rest["tr"] = {} /\ rest["tst"] = {}
    /\ epoch = 3

\* C9: the frozen embedding table keeps its initial value (the pretrained
\* matrix) in every state, and the parameters change only in a step of the
\* training loop that got a batch.
C9_ParamsChangeOnlyInTrain ==
    /\ [](pc # "idle" => params["static"] = 0)
    /\ [][(params' # params) =>
             /\ pc = "train"
             /\ last_run'.training_op
             /\ last_run'.batch # <<>>]_vars
    /\ [][(pc \in {"val", "test"}) => params' = params]_vars

\* C9 witness: a test step got a batch after training steps moved the
\* trainable embedding table, the frozen one still at its initial value.
C9_Witness ==
    /\ pc = "test"
    /\ last_run.handle = tst_handle
    /\ last_run.batch # <<>>
    /\ params["non_static"] = 10
    /\ params["static"] = 0

====
